---- MODULE Spec2Model ----
(***************************************************************************)
(* Model of gui_app.py: the background ConversionWorker (a QThread) and    *)
(* the MainWindow that starts it and handles its queued signals.           *)
(*                                                                         *)
(* Text is modelled as a sequence of tokens; an f-string is the            *)
(* concatenation of its parts.  A filesystem path that the code takes      *)
(* apart (the image path, the target file) is a sequence of tokens in      *)
(* which the separators "/" and "." are tokens of their own.  A path the   *)
(* code only passes on (the Blender executable) is a single string.        *)
(* Python's None is "None" for a string and <<>> for a token sequence;     *)
(* both are falsy, as are "" and the empty path.  The marks that open the  *)
(* window's messages are written "[ok] " and "[x] ".                       *)
(***************************************************************************)
EXTENDS Naturals, Sequences, FiniteSets, TLC

(* ------------------------------ bounds -------------------------------- *)

\* Number of conversions the user starts in one behaviour of Spec.
MaxRuns == 1

\* Number of further conversions the user starts in one behaviour of SpecMore.
MoreRuns == 1

\* Number of seconds the wall clock can advance in one behaviour.
MaxTicks == 1

\* Wall clock (seconds after midnight) when the application starts: 00:00:59.
StartClock == 59

\* The ConversionWorker objects of SpecMore, in the order the window
\* creates them; those of Spec are 1..MaxRuns.
Runs == 1..(MaxRuns + MoreRuns)

\* Image files the user can select or drop.
Images == { <<"a", "/", "plan", ".", "png">>,
            <<"plan", ".", "v2", ".", "jpg">> }

\* Texts of exceptions raised by collaborators (str(e)), opaque to the code.
ExcTexts == { "E1" }

\* Texts the Blender subprocess can leave on stderr.
StderrTexts == { "Traceback" }

\* Handles simple_single can return.
DataPaths == { "Data/0/" }

(* --------------------------- pure helpers ----------------------------- *)

None == "None"

\* Python truthiness of an optional string.
Falsy(s) == s \in { "None", "" }

\* Index of the last occurrence of token t in s, 0 when there is none.
RFind(s, t) ==
    LET hits == { i \in 1..Len(s) : s[i] = t }
    IN  IF hits = {} THEN 0 ELSE CHOOSE i \in hits : \A j \in hits : j <= i

\* pathlib: PurePath.name, the last component of the path.
PathName(p) == SubSeq(p, RFind(p, "/") + 1, Len(p))

\* pathlib: PurePath.stem, the name without its last suffix.
PathStem(p) ==
    LET name == PathName(p)
        i    == RFind(name, ".")
    IN  IF 1 < i /\ i < Len(name) THEN SubSeq(name, 1, i - 1) ELSE name

Digit(n) == <<"0", "1", "2", "3", "4", "5", "6", "7", "8", "9">>[n + 1]

\* "%02d"
Pad2(n) == << Digit((n \div 10) % 10), Digit(n % 10) >>

\* "%04d"
Pad4(n) == Pad2(n \div 100) \o Pad2(n % 100)

\* datetime.now() for a wall clock of t seconds after midnight of 2026-11-01.
Now(t) == [ year |-> 2026, month |-> 11, day |-> 1,
            hour |-> (t \div 3600) % 24, minute |-> (t \div 60) % 60,
            second |-> t % 60 ]

\* strftime("%Y%m%d_%H%M%S")
Strftime(d) ==
    Pad4(d.year) \o Pad2(d.month) \o Pad2(d.day) \o <<"_">>
        \o Pad2(d.hour) \o Pad2(d.minute) \o Pad2(d.second)

\* target_dir / f"{input_name}_{timestamp}.blend"
TargetFile(image_path, t) ==
    <<"Target", "/">> \o PathStem(image_path) \o <<"_">> \o Strftime(Now(t))
        \o <<".", "blend">>

\* The well-known installation paths, newest first.
possible_paths ==
    << "Blender 4.5", "Blender 4.4", "Blender 4.3", "Blender 4.2",
       "Blender 4.1", "Blender 4.0", "Blender 3.6", "Blender 3.5",
       "Blender 3.4", "Blender 3.3", "Blender 3.2", "Blender 3.1",
       "Blender 3.0" >>

\* ConversionWorker.find_blender: the first well-known path that exists.
FindBlender(exists) ==
    LET hits == { i \in 1..Len(possible_paths) : possible_paths[i] \in exists }
    IN  IF hits = {} THEN None
        ELSE possible_paths[CHOOSE i \in hits : \A j \in hits : i <= j]

\* MainWindow.detect_blender: the well-known paths, then `where blender`.
\* where is [rc, lines]: the exit code and the lines of its stdout.
DetectBlender(exists, where) ==
    LET found == FindBlender(exists)
    IN  IF ~Falsy(found) THEN found
        ELSE IF where.rc = 0
             THEN (IF where.lines = <<>> THEN "" ELSE where.lines[1])
             ELSE None

\* Characters str.strip() removes.
Whitespace == { " ", "\n" }

\* str.lstrip() and str.rstrip() on a text: a path is one token of the text,
\* a blank or a line end is a token of its own.
RECURSIVE LStrip(_)
LStrip(s) == IF s # <<>> /\ s[1] \in Whitespace THEN LStrip(Tail(s)) ELSE s

RECURSIVE RStrip(_)
RStrip(s) ==
    IF s # <<>> /\ s[Len(s)] \in Whitespace
    THEN RStrip(SubSeq(s, 1, Len(s) - 1)) ELSE s

\* str.strip()
Strip(s) == RStrip(LStrip(s))

\* blender_path.txt: absent, or present with a text.
NoFile == [ present |-> FALSE, text |-> <<>> ]

\* save_blender_path, line 505: f.write(path)
WriteText(path) == [ present |-> TRUE, text |-> << path >> ]

\* Mutant of LoadBlenderPath: the saved path is used only when nothing was
\* detected.
LoadBlenderPathIfUndetected(current, saved, exists) ==
    LET path == Strip(saved.text)
    IN  IF Falsy(current) /\ saved.present /\ Len(path) = 1 /\ path[1] \in exists
        THEN path[1] ELSE current

\* MainWindow.load_blender_path: the saved path replaces the detected one
\* when blender_path.txt exists and the stripped text in it is a path that
\* exists (no path on disk holds a blank or a line end).
LoadBlenderPath(current, saved, exists) ==
    LET path == Strip(saved.text)
    IN  IF saved.present /\ Len(path) = 1 /\ path[1] \in exists
        THEN path[1] ELSE current

\* Notifications: the signal and its str argument.
Notification(kind, msg) == [ kind |-> kind, msg |-> msg ]

IsTerminal(n) == n.kind \in { "finished", "error" }


(* ------------------------------- state -------------------------------- *)

VARIABLES
    exists,          \* executables present on disk (paths)
    script,          \* [required, others]: the automation script is on disk;
                     \* the other *.py files Path("Blender").glob finds
    where,           \* [rc, lines]: what `where blender` answers now
    saved,           \* blender_path.txt: [present, text]
    clock,           \* wall clock when last read, seconds after midnight
    target_dir,      \* the directory Target exists
    files,           \* files present in Target (full target paths)
    selected_file,   \* MainWindow.selected_file
    blender_path,    \* MainWindow.blender_path
    convert_enabled, \* convert_btn.isEnabled()
    progress_visible,\* progress_bar.isVisible()
    open_enabled,    \* open_blender_btn.isEnabled()
    started,         \* number of ConversionWorker objects started so far
    worker,          \* per run: the thread's position and its variables
    trace,           \* per run: what the run did (history)
    queue            \* main thread's event queue: posted signal emissions

env   == << exists, script, where, saved >>
disk  == << target_dir, files >>
gui   == << selected_file, blender_path, convert_enabled, progress_visible,
            open_enabled >>
vars  == << exists, script, where, saved, clock, target_dir, files, selected_file,
            blender_path, convert_enabled, progress_visible, open_enabled,
            started, worker, trace, queue >>

\* A worker that has not been constructed yet.
NoWorker ==
    [ pc |-> "idle", image_path |-> <<>>, blender_path |-> None,
      data_path |-> None, exe |-> None, target_file |-> <<>>, exc |-> <<>> ]

\* ConversionWorker.__init__ followed by start(): run() is about to begin.
NewWorker(image_path, path) ==
    [ NoWorker EXCEPT !.pc = "run", !.image_path = image_path,
                      !.blender_path = path ]

NoTrace ==
    [ emitted |-> <<>>, handled |-> <<>>, stages |-> <<>>, probes |-> <<>>,
      launches |-> <<>>, faults |-> <<>>, named_at |-> 0,
      request |-> <<>>, analysed |-> <<>>, seen |-> <<>> ]

\* The filesystem the application is started in.
InitEnvs ==
    { [ exists |-> {"custom.exe"}, where |-> [rc |-> 1, lines |-> <<>>],
        saved |-> NoFile,
        script |-> [required |-> TRUE, others |-> <<>>] ],
      [ exists |-> {"Blender 4.2"}, where |-> [rc |-> 1, lines |-> <<>>],
        saved |-> NoFile,
        script |-> [required |-> TRUE, others |-> <<"Blender/other.py">>] ],
      [ exists |-> {"PATH/blender"},
        where |-> [rc |-> 0, lines |-> <<"PATH/blender", "other/blender">>],
        saved |-> NoFile,
        script |-> [required |-> FALSE, others |-> <<"Blender/other.py">>] ],
      [ exists |-> {"Blender 4.2", "custom.exe"},
        where |-> [rc |-> 1, lines |-> <<>>],
        saved |-> [ present |-> TRUE, text |-> << "custom.exe", "\n" >> ],
        script |-> [required |-> FALSE, others |-> <<>>] ] }

\* MainWindow.__init__: init_ui, detect_blender, load_blender_path.  runs
\* are the workers the behaviour has room for.
Construct(runs) ==
    \E e \in InitEnvs :
        /\ exists = e.exists
        /\ script = e.script
        /\ where = e.where
        /\ saved = e.saved
        /\ clock = StartClock
        /\ target_dir = FALSE
        /\ files = {}
        /\ selected_file = <<>>
        /\ blender_path =
               LoadBlenderPath(DetectBlender(e.exists, e.where), e.saved, e.exists)
        /\ convert_enabled = FALSE
        /\ progress_visible = FALSE
        /\ open_enabled = FALSE
        /\ started = 0
        /\ worker = [ r \in runs |-> NoWorker ]
        /\ trace = [ r \in runs |-> NoTrace ]
        /\ queue = <<>>

Init == Construct(1..MaxRuns)

InitMore == Construct(Runs)

(* ------------------------- signals and slots -------------------------- *)

\* Mutant of Post: the emission is lost (the signal has no connection).
PostLost(q, ev) == q

\* Mutant of Post: the emission jumps the queue.
PostFront(q, ev) == << ev >> \o q

\* A signal emitted in the worker thread and connected to a slot of the
\* main window is posted to the end of the main thread's event queue.
Post(q, ev) == Append(q, ev)

\* self.<signal>.emit(msg) in run r: the new queue and the new history.
EmitQueue(r, kind, msg) ==
    Post(queue, [ run |-> r, n |-> Notification(kind, msg) ])

Emitted(tr, kind, msg) ==
    [ tr EXCEPT !.emitted = Append(@, Notification(kind, msg)) ]

Fault(tr, op, text) ==
    [ tr EXCEPT !.faults = Append(@, [ op |-> op, text |-> text,
                                       stages |-> Len(tr.stages) ]) ]

Entered(tr, stage) == [ tr EXCEPT !.stages = Append(@, stage) ]


(* ------------------------- ConversionWorker --------------------------- *)

script_path == "Blender/floorplan_to_3dObject_in_blender.py"

\* Outcomes of subprocess.run([blender_path, "--version"], timeout=10).
ProbeOutcomes ==
    { [ kind |-> "exit", rc |-> 0, text |-> "" ],
      [ kind |-> "exit", rc |-> 1, text |-> "" ],
      [ kind |-> "raise", rc |-> 0, text |-> "timed out after 10 seconds" ] }
    \cup { [ kind |-> "raise", rc |-> 0, text |-> t ] : t \in ExcTexts }

\* Mutant of VerifyBlender: the probe's return code is not looked at.
VerifyBlenderNoExitCheck(probe, sc) ==
    LET inner == IF probe.kind = "raise" THEN << probe.text >>
                 ELSE IF ~sc.required
                      THEN << "Blender script not found: ", script_path >>
                 ELSE <<>>
    IN  IF inner = <<>> THEN <<>>
        ELSE << "Blender verification failed: " >> \o inner

\* ConversionWorker.verify_blender: <<>> when it returns True, else the text
\* of the exception it raises.
VerifyBlender(probe, sc) ==
    LET inner == IF probe.kind = "raise" THEN << probe.text >>
                 ELSE IF probe.rc # 0 THEN << "Blender installation invalid" >>
                 ELSE IF ~sc.required
                      THEN << "Blender script not found: ", script_path >>
                 ELSE <<>>
    IN  IF inner = <<>> THEN <<>>
        ELSE << "Blender verification failed: " >> \o inner

\* create_blend_file, lines 121-128: the script handed to Blender, None when
\* "No Blender script found" is raised.
BlenderScript(sc) ==
    IF sc.required THEN script_path
    ELSE IF sc.others # <<>> THEN sc.others[1]
    ELSE None

\* Mutant of BuildCommand: the target's full path is passed, not its name.
BuildCommandFullPath(exe, blender_script, cwd, target_file, data_path) ==
    << << exe >>, << "-noaudio" >>, << "--background" >>, << "--python" >>,
       << blender_script >>, << cwd >>, target_file, << data_path >> >>

\* The argument vector of the build subprocess.
BuildCommand(exe, blender_script, cwd, target_file, data_path) ==
    << << exe >>, << "-noaudio" >>, << "--background" >>, << "--python" >>,
       << blender_script >>, << cwd >>, PathName(target_file), << data_path >> >>

\* Outcomes of the build subprocess: it cannot be launched, or it exits with
\* rc, leaves text on stderr, and has or has not written the file it was
\* asked for.
BuildOutcomes ==
    { [ kind |-> "raise", rc |-> 0, text |-> t, wrote |-> FALSE ] : t \in ExcTexts }
    \cup { [ kind |-> "exit", rc |-> c, text |-> t, wrote |-> b ] :
             c \in {0, 1}, t \in StderrTexts, b \in BOOLEAN }

\* Mutant of CreateBlendFileError: subprocess.run without check=True.
CreateBlendFileErrorUnchecked(blender_script, out) ==
    IF Falsy(blender_script)
    THEN << "Failed to create .blend file: ", "No Blender script found" >>
    ELSE IF out.kind = "raise"
    THEN << "Failed to create .blend file: ", out.text >>
    ELSE <<>>

\* create_blend_file's except clauses: <<>> when it returns, else the text of
\* the exception it raises.
CreateBlendFileError(blender_script, out) ==
    IF Falsy(blender_script)
    THEN << "Failed to create .blend file: ", "No Blender script found" >>
    ELSE IF out.kind = "raise"
    THEN << "Failed to create .blend file: ", out.text >>
    ELSE IF out.rc # 0
    THEN << "Blender execution failed: ", out.text >>
    ELSE <<>>

\* Mutant of ToolMissing: only the empty string counts as no tool.
ToolMissingEmptyOnly(path) == path = ""

\* Line 51: if not blender_path
ToolMissing(path) == Falsy(path)

\* Mutant of ResolveTool: a well-known installation wins over the override.
ResolveToolPreferFound(override, ex) ==
    IF ~Falsy(FindBlender(ex)) THEN FindBlender(ex) ELSE override

\* Line 50: blender_path = self.blender_path or self.find_blender()
ResolveTool(override, ex) ==
    IF Falsy(override) THEN FindBlender(ex) ELSE override

\* Mutant of CapturedImage: the window's current selection is read.
CapturedImageOfWindow(w, selection) == selection

\* Line 63 reads self.image_path, the value __init__ stored in the worker;
\* the worker holds no reference to the window or its selection.
CapturedImage(w, selection) == w.image_path

\* Mutant of ArtifactExists: the exit code is trusted.
ArtifactAssumed(target_file, fs) == TRUE

\* Line 68: target_file.exists()
ArtifactExists(target_file, fs) == target_file \in fs

\* Mutant of AfterErrorEmit: the return after error.emit is missing.
AfterErrorEmitFallThrough == "name"

\* Where run() continues after the error.emit of line 52 or 59: it returns.
AfterErrorEmit == "done"

\* Mutant of AfterLocate: the verification is skipped.
AfterLocateSkipVerify == "name"

\* Where run() continues with a located tool: the verification of line 57.
AfterLocate == "verify"

\* Mutant of OnException: the exception is swallowed (except: pass).
OnExceptionSwallowed == "done"

\* Where an exception raised in run()'s try block goes: the handler of line 73.
OnException == "except"

\* Line 34: self.progress.emit("Processing...")
EmitProcessing(r) ==
    /\ worker[r].pc = "run"
    /\ queue' = EmitQueue(r, "progress", << "Processing..." >>)
    /\ trace' = [ trace EXCEPT ![r] = Emitted(@, "progress", << "Processing..." >>) ]
    /\ worker' = [ worker EXCEPT ![r].pc = "analyze" ]
    /\ UNCHANGED << env, clock, disk, gui, started >>

\* Lines 37-41: floorplan(...), fp.image_path = self.image_path and
\* simple_single(fp): a handle or an exception.
Analyze(r) ==
    /\ worker[r].pc = "analyze"
    /\ LET tr == [ Entered(trace[r], "Analyzing") EXCEPT
                     !.analysed = << CapturedImage(worker[r], selected_file) >> ]
       IN  \/ \E d \in DataPaths :
                /\ worker' = [ worker EXCEPT ![r].pc = "generating",
                                             ![r].data_path = d ]
                /\ trace' = [ trace EXCEPT ![r] = tr ]
           \/ \E t \in ExcTexts :
                /\ worker' = [ worker EXCEPT ![r].pc = OnException,
                                             ![r].exc = << t >> ]
                /\ trace' = [ trace EXCEPT ![r] = Fault(tr, "analysis", << t >>) ]
    /\ UNCHANGED << env, clock, disk, gui, started, queue >>

\* Line 43: self.progress.emit("Generating 3D model in Blender...")
EmitGenerating(r) ==
    /\ worker[r].pc = "generating"
    /\ queue' = EmitQueue(r, "progress", << "Generating 3D model in Blender..." >>)
    /\ trace' = [ trace EXCEPT ![r] =
                    Emitted(@, "progress", << "Generating 3D model in Blender..." >>) ]
    /\ worker' = [ worker EXCEPT ![r].pc = "mkdir" ]
    /\ UNCHANGED << env, clock, disk, gui, started >>

\* Lines 46-47: target_dir.mkdir(exist_ok=True); creating it can fail.
MakeTargetDir(r) ==
    /\ worker[r].pc = "mkdir"
    /\ \/ /\ target_dir' = TRUE
          /\ worker' = [ worker EXCEPT ![r].pc = "locate" ]
          /\ UNCHANGED trace
       \/ /\ ~target_dir
          /\ \E t \in ExcTexts :
               /\ worker' = [ worker EXCEPT ![r].pc = OnException, ![r].exc = << t >> ]
               /\ trace' = [ trace EXCEPT ![r] = Fault(@, "mkdir", << t >>) ]
          /\ UNCHANGED target_dir
    /\ UNCHANGED << env, clock, files, gui, started, queue >>

\* Lines 50-53: the override or find_blender(); none ends the run.
LocateTool(r) ==
    /\ worker[r].pc = "locate"
    /\ LET path == ResolveTool(worker[r].blender_path, exists)
           msg  == << "[x] Blender not found. Please install Blender or configure the path." >>
           tr   == [ Entered(trace[r], "LocatingTool") EXCEPT
                       !.seen = << [ exists |-> exists, where |-> where ] >> ]
       IN  IF ToolMissing(path)
           THEN /\ queue' = EmitQueue(r, "error", msg)
                /\ trace' = [ trace EXCEPT ![r] =
                                Emitted(Fault(tr, "locate", <<>>), "error", msg) ]
                /\ worker' = [ worker EXCEPT ![r].pc = AfterErrorEmit ]
           ELSE /\ worker' = [ worker EXCEPT ![r].pc = AfterLocate, ![r].exe = path ]
                /\ trace' = [ trace EXCEPT ![r] = tr ]
                /\ UNCHANGED queue
    /\ UNCHANGED << env, clock, disk, gui, started >>

\* Lines 56-60: verify_blender(blender_path); an exception ends the run.
VerifyTool(r) ==
    /\ worker[r].pc = "verify"
    /\ \E probe \in ProbeOutcomes :
         LET e   == VerifyBlender(probe, script)
             msg == << "[x] Blender verification failed: " >> \o e
             tr  == [ Entered(trace[r], "VerifyingTool") EXCEPT
                        !.probes = Append(@, [ exe |-> worker[r].exe,
                                               probe |-> probe, ok |-> e = <<>>,
                                               script |-> script.required ]) ]
         IN  IF e # <<>>
             THEN /\ queue' = EmitQueue(r, "error", msg)
                  /\ trace' = [ trace EXCEPT ![r] =
                                  Emitted(Fault(tr, "verify", e), "error", msg) ]
                  /\ worker' = [ worker EXCEPT ![r].pc = AfterErrorEmit ]
             ELSE /\ worker' = [ worker EXCEPT ![r].pc = "name" ]
                  /\ trace' = [ trace EXCEPT ![r] = tr ]
                  /\ UNCHANGED queue
    /\ UNCHANGED << env, clock, disk, gui, started >>

\* Lines 63-65: the target file name from the image's stem and
\* datetime.now().  The wall clock is read nowhere else, so the time that
\* has passed since it was last read is chosen here.
NameTarget(r) ==
    /\ worker[r].pc = "name"
    /\ \E now \in clock..(StartClock + MaxTicks) :
         /\ clock' = now
         /\ worker' = [ worker EXCEPT ![r].pc = "build",
                          ![r].target_file =
                              TargetFile(CapturedImage(worker[r], selected_file), now) ]
         /\ trace' = [ trace EXCEPT ![r].named_at = now ]
    /\ UNCHANGED << env, disk, gui, started, queue >>

\* Line 66, lines 117-160: create_blend_file runs Blender and waits for it.
CreateBlendFile(r) ==
    /\ worker[r].pc = "build"
    /\ \E out \in BuildOutcomes :
         LET bs  == BlenderScript(script)
             e   == CreateBlendFileError(bs, out)
             cmd == BuildCommand(worker[r].exe, bs, "cwd", worker[r].target_file,
                                 worker[r].data_path)
             ran == ~Falsy(bs) /\ out.kind = "exit"
             tr  == IF Falsy(bs) THEN Entered(trace[r], "BuildingScene")
                    ELSE [ Entered(trace[r], "BuildingScene") EXCEPT
                             !.launches = Append(@, [ cmd |-> cmd, out |-> out,
                                                      script |-> script.required ]) ]
         IN  /\ files' = IF ran /\ out.wrote
                         THEN files \cup { worker[r].target_file } ELSE files
             /\ IF e # <<>>
                THEN /\ worker' = [ worker EXCEPT ![r].pc = OnException, ![r].exc = e ]
                     /\ trace' = [ trace EXCEPT ![r] = Fault(tr, "build", e) ]
                ELSE /\ worker' = [ worker EXCEPT ![r].pc = "check" ]
                     /\ trace' = [ trace EXCEPT ![r] = tr ]
    /\ UNCHANGED << env, clock, target_dir, gui, started, queue >>

\* Lines 68-71: the artifact check and the terminal signal.
CheckArtifact(r) ==
    /\ worker[r].pc = "check"
    /\ LET ok  == ArtifactExists(worker[r].target_file, files)
           msg == IF ok THEN << "[ok] Model saved at " >> \o worker[r].target_file
                  ELSE << "[x] Failed to create .blend file" >>
           tr  == IF ok THEN trace[r] ELSE Fault(trace[r], "artifact", <<>>)
       IN  /\ queue' = EmitQueue(r, IF ok THEN "finished" ELSE "error", msg)
           /\ trace' = [ trace EXCEPT ![r] =
                           Emitted(tr, IF ok THEN "finished" ELSE "error", msg) ]
    /\ worker' = [ worker EXCEPT ![r].pc = "done" ]
    /\ UNCHANGED << env, clock, disk, gui, started >>

\* Lines 73-74: except Exception as e: self.error.emit(f"Error: {str(e)}")
ExceptHandler(r) ==
    /\ worker[r].pc = "except"
    /\ LET msg == << "[x] Error: " >> \o worker[r].exc
       IN  /\ queue' = EmitQueue(r, "error", msg)
           /\ trace' = [ trace EXCEPT ![r] = Emitted(@, "error", msg) ]
    /\ worker' = [ worker EXCEPT ![r].pc = "done" ]
    /\ UNCHANGED << env, clock, disk, gui, started >>

WorkerStep(r) ==
    \/ EmitProcessing(r)
    \/ Analyze(r)
    \/ EmitGenerating(r)
    \/ MakeTargetDir(r)
    \/ LocateTool(r)
    \/ VerifyTool(r)
    \/ NameTarget(r)
    \/ CreateBlendFile(r)
    \/ CheckArtifact(r)
    \/ ExceptHandler(r)


(* ---------------------------- MainWindow ------------------------------ *)

\* browse_file with a chosen file, or a drop of a .jpg/.jpeg/.png file:
\* on_file_selected(file_path).
OnFileSelected(file_path) ==
    /\ selected_file' = file_path
    /\ convert_enabled' = TRUE
    /\ UNCHANGED << env, clock, disk, blender_path, progress_visible,
                    open_enabled, started, worker, trace, queue >>

\* A click on the (enabled) Convert button: convert_image().  limit bounds
\* the number of conversions of one behaviour.
ConvertImage(limit) ==
    /\ convert_enabled
    /\ started < limit
    /\ selected_file # <<>>
    /\ convert_enabled' = FALSE
    /\ progress_visible' = TRUE
    /\ started' = started + 1
    /\ worker' = [ worker EXCEPT ![started + 1] =
                     NewWorker(selected_file, blender_path) ]
    /\ trace' = [ trace EXCEPT ![started + 1].request =
                     << [ image_path |-> selected_file,
                          blender_path |-> blender_path ] >> ]
    /\ UNCHANGED << env, clock, disk, selected_file, blender_path,
                    open_enabled, queue >>

\* The event the main thread's event loop takes next.
NextEvent == queue[1]

Handled(r) == [ trace EXCEPT ![r].handled = Append(@, NextEvent.n) ]

\* on_conversion_progress(message)
OnConversionProgress ==
    /\ queue # <<>>
    /\ NextEvent.n.kind = "progress"
    /\ queue' = Tail(queue)
    /\ trace' = Handled(NextEvent.run)
    /\ UNCHANGED << env, clock, disk, selected_file, blender_path,
                    convert_enabled, progress_visible, open_enabled, started,
                    worker >>

\* on_conversion_finished(message)
OnConversionFinished ==
    /\ queue # <<>>
    /\ NextEvent.n.kind = "finished"
    /\ queue' = Tail(queue)
    /\ progress_visible' = FALSE
    /\ convert_enabled' = TRUE
    /\ open_enabled' = TRUE
    /\ trace' = Handled(NextEvent.run)
    /\ UNCHANGED << env, clock, disk, selected_file, blender_path, started,
                    worker >>

\* on_conversion_error(message)
OnConversionError ==
    /\ queue # <<>>
    /\ NextEvent.n.kind = "error"
    /\ queue' = Tail(queue)
    /\ progress_visible' = FALSE
    /\ convert_enabled' = TRUE
    /\ trace' = Handled(NextEvent.run)
    /\ UNCHANGED << env, clock, disk, selected_file, blender_path,
                    open_enabled, started, worker >>
\* Executables the user can pick in the "Select Blender Executable" dialog.
DialogPaths == { "custom.exe" }

\* Mutant of Confirmed: a cancelled dialog counts as a choice.
ConfirmedAlways(path) == TRUE

\* Line 490: if path (the dialog returns "" when it is cancelled)
Confirmed(path) == ~Falsy(path)

\* save_blender_path: the file is written; or open() fails and the file is
\* as it was; or open() has truncated the file and write() fails (a path
\* the default encoding cannot encode).  The exception is ignored.
SaveBlenderPath(path, old) ==
    { WriteText(path), old, [ present |-> TRUE, text |-> <<>> ] }

\* A click on the (enabled) "Open in Blender" button: open_in_blender().
\* Without a .blend file in Target it warns and returns.  Without a tool
\* path it asks for one; a chosen path is kept and saved, a cancelled dialog
\* returns.  The Popen of Blender leaves the window's state as it is.
OpenInBlender ==
    /\ open_enabled
    /\ IF target_dir /\ files # {} /\ Falsy(blender_path)
       THEN \E path \in { p \in DialogPaths : p \in exists } \cup { "" } :
              IF Confirmed(path)
              THEN /\ blender_path' = path
                   /\ saved' \in SaveBlenderPath(path, saved)
              ELSE UNCHANGED << blender_path, saved >>
       ELSE UNCHANGED << blender_path, saved >>
    /\ UNCHANGED << exists, script, where, clock, disk, selected_file,
                    convert_enabled, progress_visible, open_enabled, started,
                    worker, trace, queue >>


(* ---------------------------- environment ----------------------------- *)

\* Blender is installed at a well-known path while the application runs
\* (what the "Blender not found" message asks the user to do).
InstallBlender ==
    /\ Falsy(FindBlender(exists))
    /\ Falsy(blender_path)
    /\ exists' = exists \cup { "Blender 4.2" }
    /\ UNCHANGED << script, where, saved, clock, disk, gui, started, worker,
                    trace, queue >>

\* The automation script is deleted or moved away while the application
\* runs.
RemoveScript ==
    /\ script.required
    /\ script' = [ script EXCEPT !.required = FALSE ]
    /\ UNCHANGED << exists, where, saved, clock, disk, gui, started, worker,
                    trace, queue >>

\* A Blender installation at a well-known path is removed while the
\* application runs.
UninstallBlender ==
    /\ \E i \in 1..Len(possible_paths) :
         /\ possible_paths[i] \in exists
         /\ exists' = exists \ { possible_paths[i] }
    /\ UNCHANGED << script, where, saved, clock, disk, gui, started, worker,
                    trace, queue >>

\* A Blender outside the well-known paths is put on the search path while
\* the application runs: `where blender` now finds it.
AddToPath ==
    /\ where.rc # 0
    /\ where' = [ rc |-> 0, lines |-> << "PATH/blender" >> ]
    /\ exists' = exists \cup { "PATH/blender" }
    /\ UNCHANGED << script, saved, clock, disk, gui, started, worker, trace,
                    queue >>

\* The program in the filesystem it was started in.
Next ==
    \/ \E r \in DOMAIN worker : WorkerStep(r)
    \/ \E f \in Images : OnFileSelected(f)
    \/ ConvertImage(MaxRuns)
    \/ OnConversionProgress
    \/ OnConversionFinished
    \/ OnConversionError
    \/ OpenInBlender

Spec == Init /\ [][Next]_vars

\* The same program with its scheduling: a worker thread that can take a
\* step eventually takes it (the analysis, the probe and the build
\* subprocess return, the thread is scheduled), and the event loop of the
\* main thread eventually runs the slot of the event at the head of its
\* queue.  Nothing makes the user click.
Fairness ==
    /\ \A r \in 1..MaxRuns : WF_vars(WorkerStep(r))
    /\ WF_vars(OnConversionProgress)
    /\ WF_vars(OnConversionFinished)
    /\ WF_vars(OnConversionError)

SpecLive == Init /\ [][Next]_vars /\ Fairness

\* The same program with MoreRuns further conversions: the behaviours in
\* which a second worker runs after, or beside, the first.
NextMore ==
    \/ \E r \in DOMAIN worker : WorkerStep(r)
    \/ \E f \in Images : OnFileSelected(f)
    \/ ConvertImage(MaxRuns + MoreRuns)
    \/ OnConversionProgress
    \/ OnConversionFinished
    \/ OnConversionError
    \/ OpenInBlender

SpecMore == InitMore /\ [][NextMore]_vars

\* The same program in a filesystem that changes while it runs.
NextFs ==
    \/ Next
    \/ InstallBlender
    \/ RemoveScript
    \/ UninstallBlender
    \/ AddToPath

SpecFs == Init /\ [][NextFs]_vars

\* The user closes the idle application and starts it again:
\* MainWindow.__init__ runs in the filesystem as it is now.  The workers of
\* the session that ended are gone with their process; started goes on
\* counting the conversions of the behaviour.
Restart ==
    /\ selected_file' = <<>>
    /\ blender_path' =
           LoadBlenderPath(DetectBlender(exists, where), saved, exists)
    /\ convert_enabled' = FALSE
    /\ progress_visible' = FALSE
    /\ open_enabled' = FALSE
    /\ worker' = [ r \in DOMAIN worker |-> NoWorker ]
    /\ trace' = [ r \in DOMAIN trace |-> NoTrace ]
    /\ UNCHANGED << env, clock, disk, started, queue >>

\* An executable the user once picked in the dialog is deleted.
RemoveChosen ==
    /\ \E p \in DialogPaths :
         /\ p \in exists
         /\ exists' = exists \ { p }
    /\ UNCHANGED << script, where, saved, clock, disk, gui, started, worker,
                    trace, queue >>

\* The worker threads have ended and their notifications are handled.
Quiet ==
    /\ queue = <<>>
    /\ \A r \in DOMAIN worker : worker[r].pc \in { "idle", "done" }

\* The same program over several sessions of the application, with a user
\* who lets a conversion end before starting the next one or closing the
\* window.
NextSession ==
    \/ \E r \in DOMAIN worker : WorkerStep(r)
    \/ \E f \in Images : OnFileSelected(f)
    \/ Quiet /\ ConvertImage(MaxRuns)
    \/ OnConversionProgress
    \/ OnConversionFinished
    \/ OnConversionError
    \/ OpenInBlender
    \/ InstallBlender
    \/ Quiet /\ Restart
    \/ RemoveChosen

SpecSession == Init /\ [][NextSession]_vars


(* ------------------------------ claims -------------------------------- *)

Started(r) == worker[r].pc # "idle"

Terminals(tr) == { i \in 1..Len(tr.emitted) : IsTerminal(tr.emitted[i]) }

LastEmitted(tr) == tr.emitted[Len(tr.emitted)]

Elems(seq) == { seq[i] : i \in 1..Len(seq) }

NotFoundMessage ==
    << "[x] Blender not found. Please install Blender or configure the path." >>

ArtifactMissingMessage == << "[x] Failed to create .blend file" >>

\* C1: every run emits exactly one terminal notification (finished or
\* error) by the time it ends, never two, none before it ends, and nothing
\* is emitted after the terminal one.
C1_ExactlyOneTerminal ==
    \A r \in DOMAIN worker :
        LET tr == trace[r]
            T  == Terminals(tr)
        IN  /\ Cardinality(T) <= 1
            /\ \A i \in T : i = Len(tr.emitted)
            /\ (worker[r].pc = "done") <=> (Cardinality(T) = 1)

C1_Witness ==
    \E r \in DOMAIN worker :
        /\ worker[r].pc = "done"
        /\ Len(trace[r].emitted) = 3
        /\ LastEmitted(trace[r]).kind = "error"
        /\ \E f \in Elems(trace[r].faults) : f.op = "build"

\* C2: the main window handles the notifications of a run in the order the
\* run emitted them: what it has handled is a prefix of what was emitted,
\* and it handles nothing of a run after that run's terminal notification.
C2_OrderedDelivery ==
    \A r \in DOMAIN worker :
        LET tr == trace[r]
            n  == Len(tr.handled)
        IN  /\ n <= Len(tr.emitted)
            /\ tr.handled = SubSeq(tr.emitted, 1, n)
            /\ \A i \in 1..n : IsTerminal(tr.handled[i]) => i = n

C2_Witness ==
    \E r \in DOMAIN worker :
        /\ Len(trace[r].handled) = 3
        /\ trace[r].handled[1].kind = "progress"
        /\ trace[r].handled[2].kind = "progress"
        /\ IsTerminal(trace[r].handled[3])

\* C3: a run whose build subprocess exited 0 without writing the expected
\* file ends with the artifact-missing failure, never with success.
C3_ArtifactMissingNeverSuccess ==
    \A r \in DOMAIN worker :
        \A l \in Elems(trace[r].launches) :
            ( /\ l.out.kind = "exit" /\ l.out.rc = 0 /\ ~l.out.wrote
              /\ worker[r].pc = "done" )
            => LastEmitted(trace[r]) = Notification("error", ArtifactMissingMessage)

\* C4: a run whose build subprocess exited non-zero never reaches the
\* artifact check; it ends with the error that carries the subprocess's
\* stderr, raised in the build stage, also when the expected file exists.
C4_NonZeroExitIsFailure ==
    \A r \in DOMAIN worker :
        \A l \in Elems(trace[r].launches) :
            ( l.out.kind = "exit" /\ l.out.rc # 0 )
            => /\ worker[r].pc \in { "except", "done" }
               /\ \A n \in Elems(trace[r].emitted) : n.kind # "finished"
               /\ \E f \in Elems(trace[r].faults) : f.op = "build"
               /\ worker[r].pc = "done" =>
                    LastEmitted(trace[r]) =
                        Notification("error",
                            << "[x] Error: ", "Blender execution failed: ", l.out.text >>)

C4_Witness ==
    \E r \in DOMAIN worker :
        /\ worker[r].pc = "done"
        /\ worker[r].target_file \in files
        /\ \E l \in Elems(trace[r].launches) :
              l.out.kind = "exit" /\ l.out.rc # 0 /\ l.out.wrote

\* The stem pathlib gives each of the model's images.
ExpectedStem(image_path) ==
    CASE image_path = <<"a", "/", "plan", ".", "png">> -> << "plan" >>
      [] image_path = <<"plan", ".", "v2", ".", "jpg">> -> << "plan", ".", "v2" >>

DigitVal(c) == CHOOSE n \in 0..9 : Digit(n) = c

IsDigit(c) == \E n \in 0..9 : Digit(n) = c

\* ts is YYYYMMDD_HHMMSS and its time of day is t seconds after midnight.
IsStamp(ts, t) ==
    /\ Len(ts) = 15
    /\ ts[9] = "_"
    /\ \A i \in (1..15) \ {9} : IsDigit(ts[i])
    /\ 10 * DigitVal(ts[10]) + DigitVal(ts[11]) = t \div 3600
    /\ 10 * DigitVal(ts[12]) + DigitVal(ts[13]) = (t \div 60) % 60
    /\ 10 * DigitVal(ts[14]) + DigitVal(ts[15]) = t % 60

\* tf is Target/<stem>_<YYYYMMDD_HHMMSS>.blend
WellNamed(tf, image_path, t) ==
    LET stem == ExpectedStem(image_path)
        n    == Len(stem)
    IN  /\ Len(tf) = n + 20
        /\ SubSeq(tf, 1, 2) = << "Target", "/" >>
        /\ SubSeq(tf, 3, n + 2) = stem
        /\ tf[n + 3] = "_"
        /\ IsStamp(SubSeq(tf, n + 4, n + 18), t)
        /\ SubSeq(tf, n + 19, n + 20) = << ".", "blend" >>

\* C5: a run whose build subprocess exited 0 and wrote the expected file
\* ends with finished carrying the target path; whenever finished is
\* emitted, the target file exists and is named
\* Target/<image stem>_<YYYYMMDD_HHMMSS>.blend for the time the name was made.
C5_SuccessCarriesExistingNamedFile ==
    \A r \in DOMAIN worker :
        /\ \A l \in Elems(trace[r].launches) :
              ( /\ l.out.kind = "exit" /\ l.out.rc = 0 /\ l.out.wrote
                /\ worker[r].pc = "done" )
              => LastEmitted(trace[r]) =
                    Notification("finished",
                        << "[ok] Model saved at " >> \o worker[r].target_file)
        /\ \A n \in Elems(trace[r].emitted) :
              n.kind = "finished"
              => /\ worker[r].target_file \in files
                 /\ WellNamed(worker[r].target_file, worker[r].image_path,
                              trace[r].named_at)
                 /\ n.msg = << "[ok] Model saved at " >> \o worker[r].target_file

C5_Witness ==
    \E r \in DOMAIN worker :
        /\ worker[r].pc = "done"
        /\ LastEmitted(trace[r]).kind = "finished"
        /\ trace[r].named_at > StartClock
        /\ worker[r].image_path = <<"plan", ".", "v2", ".", "jpg">>

StageOrder == << "Analyzing", "LocatingTool", "VerifyingTool", "BuildingScene" >>

\* C6: the stages of a run are entered in the order analysis, location,
\* verification, build, each at most once; no stage is entered after a
\* fault; the build subprocess is launched only after the one probe of this
\* run succeeded, on the executable that was probed.
C6_StageOrder ==
    \A r \in DOMAIN worker :
        LET tr == trace[r]
        IN  /\ Len(tr.stages) <= Len(StageOrder)
            /\ tr.stages = SubSeq(StageOrder, 1, Len(tr.stages))
            /\ \A f \in Elems(tr.faults) : f.stages = Len(tr.stages)
            /\ Len(tr.probes) <= 1
            /\ Len(tr.launches) <= 1
            /\ \A l \in Elems(tr.launches) :
                  /\ tr.probes # <<>>
                  /\ tr.probes[1].probe.kind = "exit"
                  /\ tr.probes[1].probe.rc = 0
                  /\ l.cmd[1] = << tr.probes[1].exe >>

C6_Witness ==
    \E r \in DOMAIN worker :
        /\ trace[r].stages = StageOrder
        /\ trace[r].launches # <<>>
        /\ trace[r].probes[1].exe = worker[r].exe
        /\ worker[r].pc = "done"

\* C7: every fault inside run() ends in a terminal error notification: after
\* a fault the run is on its way into the handler or has ended with error
\* as its last notification.
C7_FaultsBecomeFailures ==
    \A r \in DOMAIN worker :
        trace[r].faults # <<>>
        => \/ worker[r].pc = "except"
           \/ /\ worker[r].pc = "done"
              /\ trace[r].emitted # <<>>
              /\ LastEmitted(trace[r]).kind = "error"

C7_Witness ==
    \E r \in DOMAIN worker :
        /\ worker[r].pc = "done"
        /\ \E f \in Elems(trace[r].faults) : f.op = "mkdir"
        /\ LastEmitted(trace[r]).kind = "error"

\* The stage of section 4.3 an operation of run() belongs to.
StageOfOp(op) ==
    CASE op = "analysis" -> "Analyzing"
      [] op = "locate"   -> "LocatingTool"
      [] op = "verify"   -> "VerifyingTool"
      [] op \in { "mkdir", "build", "artifact" } -> "BuildingScene"

\* What the caller can read a stage from: the message without the texts the
\* collaborators chose (exception texts, stderr).
MessageTag(msg) ==
    SelectSeq(msg, LAMBDA tok : tok \notin ExcTexts \cup StderrTexts)

FailedRuns == { r \in DOMAIN worker : worker[r].pc = "done" /\ trace[r].faults # <<>> }

\* C8: a terminal failure identifies its stage: two failures from different
\* stages carry different tags, and after an analysis fault no later stage
\* is entered.
C8_FailureIdentifiesStage ==
    /\ \A r1, r2 \in FailedRuns :
          MessageTag(LastEmitted(trace[r1]).msg) = MessageTag(LastEmitted(trace[r2]).msg)
          => StageOfOp(trace[r1].faults[1].op) = StageOfOp(trace[r2].faults[1].op)
    /\ \A r \in DOMAIN worker :
          (\E f \in Elems(trace[r].faults) : f.op = "analysis")
          => /\ trace[r].stages = << "Analyzing" >>
             /\ trace[r].probes = <<>>
             /\ trace[r].launches = <<>>

\* C9: when location yields no executable, the run ends at once with the
\* not-found error; nothing is probed and nothing is launched.
C9_ToolNotFound ==
    \A r \in DOMAIN worker :
        ( /\ Len(trace[r].stages) >= 2 /\ Falsy(worker[r].exe) )
        => /\ worker[r].pc = "done"
           /\ trace[r].stages = << "Analyzing", "LocatingTool" >>
           /\ LastEmitted(trace[r]) = Notification("error", NotFoundMessage)
           /\ trace[r].probes = <<>>
           /\ trace[r].launches = <<>>

C9_Witness ==
    \E r \in DOMAIN worker :
        /\ Len(trace[r].stages) >= 2
        /\ Falsy(worker[r].exe)
        /\ worker[r].pc = "done"

\* C10: a probe that exits non-zero, times out or cannot be launched, and
\* any other failure of verify_blender, ends the run with the verification
\* error carrying the diagnostic; the build subprocess is not launched.
C10_VerificationFailure ==
    \A r \in DOMAIN worker :
        /\ \A p \in Elems(trace[r].probes) :
              ( p.probe.kind = "raise" \/ p.probe.rc # 0 )
              => /\ worker[r].pc = "done"
                 /\ trace[r].launches = <<>>
                 /\ LastEmitted(trace[r]) =
                       Notification("error",
                           << "[x] Blender verification failed: ",
                              "Blender verification failed: ",
                              IF p.probe.kind = "raise" THEN p.probe.text
                              ELSE "Blender installation invalid" >>)
        /\ (\E f \in Elems(trace[r].faults) : f.op = "verify")
              => /\ worker[r].pc = "done"
                 /\ trace[r].launches = <<>>
                 /\ LastEmitted(trace[r]).kind = "error"
                 /\ SubSeq(LastEmitted(trace[r]).msg, 1, 1) =
                       << "[x] Blender verification failed: " >>

C10_Witness ==
    \E r \in DOMAIN worker :
        /\ worker[r].pc = "done"
        /\ \E p \in Elems(trace[r].probes) :
              p.probe.kind = "raise" /\ p.probe.text = "timed out after 10 seconds"


\* The runs that have resolved the tool path (line 50).
Located(r) == trace[r].seen # <<>>

\* C11: verification fails with the script-not-found error whenever the
\* required automation script is not on disk, also when the probe succeeds;
\* so every launch of the build subprocess hands Blender the required
\* script, and happens while that script is on disk.
C11_ScriptRequired ==
    \A r \in DOMAIN worker :
        /\ \A i \in 1..Len(trace[r].probes) :
              LET p == trace[r].probes[i]
              IN  (p.probe.kind = "exit" /\ p.probe.rc = 0 /\ ~p.script)
                  => /\ ~p.ok
                     /\ \E j \in 1..Len(trace[r].emitted) :
                          trace[r].emitted[j] =
                              Notification("error",
                                  << "[x] Blender verification failed: ",
                                     "Blender verification failed: ",
                                     "Blender script not found: ", script_path >>)
        /\ \A i \in 1..Len(trace[r].launches) :
              /\ trace[r].launches[i].cmd[5] = << script_path >>
              /\ trace[r].launches[i].script

\* C12: an override that is not empty and exists on disk is the located
\* tool, whichever well-known installations exist.
C12_OverrideWins ==
    \A r \in DOMAIN worker :
        (/\ Located(r)
         /\ ~Falsy(worker[r].blender_path)
         /\ worker[r].blender_path \in trace[r].seen[1].exists)
        => worker[r].exe = worker[r].blender_path

\* A run located its override although a well-known installation exists.
C12_Witness ==
    \E r \in DOMAIN worker :
        /\ Located(r)
        /\ ~Falsy(worker[r].blender_path)
        /\ worker[r].blender_path \in trace[r].seen[1].exists
        /\ ~Falsy(FindBlender(trace[r].seen[1].exists))
        /\ FindBlender(trace[r].seen[1].exists) # worker[r].blender_path
        /\ worker[r].exe = worker[r].blender_path

\* C13: with an override that is absent, empty, or not on disk when the run
\* locates the tool, the located tool is the first well-known path that
\* exists (none when there is none); an override that is not on disk is
\* never the located tool.
C13_StaleOverrideFallsThrough ==
    \A r \in DOMAIN worker :
        (/\ Located(r)
         /\ \/ Falsy(worker[r].blender_path)
            \/ worker[r].blender_path \notin trace[r].seen[1].exists)
        => worker[r].exe = FindBlender(trace[r].seen[1].exists)

\* C14: without an override, no tool is located exactly when no well-known
\* path exists and the search-path lookup fails; when no well-known path
\* exists and the lookup succeeds, its first match is the located tool.
C14_NoneIffNothingFound ==
    \A r \in DOMAIN worker :
        (Located(r) /\ Falsy(worker[r].blender_path))
        => LET ex == trace[r].seen[1].exists
               wh == trace[r].seen[1].where
           IN  /\ Falsy(worker[r].exe) <=> (Falsy(FindBlender(ex)) /\ wh.rc # 0)
               /\ (Falsy(FindBlender(ex)) /\ wh.rc = 0)
                  => worker[r].exe = wh.lines[1]

\* C15: when the application starts with a blender_path.txt that
\* save_blender_path wrote and the path in it still exists, the tool path
\* after startup is exactly that path, whatever detect_blender found.
C15_SavedPathRoundTrip ==
    [][ Restart =>
          \A p \in DialogPaths :
              (saved = WriteText(p) /\ p \in exists) => blender_path' = p ]_vars

\* The application was started again with the saved path on disk and a
\* well-known installation beside it, and holds the saved path.
C15_Witness ==
    /\ saved = WriteText("custom.exe")
    /\ "custom.exe" \in exists
    /\ ~Falsy(FindBlender(exists))
    /\ blender_path = "custom.exe"
    /\ ~open_enabled

\* C16: blender_path.txt changes only in the step in which the user, asked
\* for the executable because the window has no tool path, picks one: the
\* picked path becomes the tool path and the file is written with it (or
\* left empty by a failed write).  Startup, file selection, Convert, the
\* three slots and a cancelled dialog leave the file as it is.
C16_SavedOnlyOnConfirm ==
    [][ saved' # saved =>
          /\ open_enabled
          /\ Falsy(blender_path)
          /\ blender_path' \in DialogPaths
          /\ saved'.present
          /\ saved'.text \in { << blender_path' >>, <<>> } ]_vars

\* The file has been written by a confirmed dialog.
C16_Witness ==
    /\ saved = WriteText("custom.exe")
    /\ blender_path = "custom.exe"
    /\ open_enabled

\* The slot of run r's terminal notification has run.
TerminalHandled(r) ==
    \E i \in 1..Len(trace[r].handled) : IsTerminal(trace[r].handled[i])

\* Run r has been started and its terminal notification is not delivered.
InFlight(r) == Started(r) /\ ~TerminalHandled(r)

\* C17: at most one conversion is in flight at any time: no worker is
\* started while an earlier one has not delivered its terminal notification.
C17_SingleFlight ==
    Cardinality({ r \in DOMAIN worker : InFlight(r) }) <= 1

C19_BuildArguments ==
    \A r \in DOMAIN worker :
        \A i \in 1..Len(trace[r].launches) :
            LET cmd == trace[r].launches[i].cmd
            IN  /\ Len(cmd) = 8
                /\ SubSeq(cmd, 2, 4) =
                       << << "-noaudio" >>, << "--background" >>, << "--python" >> >>
                /\ Len(cmd[5]) = 1
                /\ cmd[6] = << "cwd" >>
                /\ RFind(cmd[7], "/") = 0
                /\ << "Target", "/" >> \o cmd[7] = worker[r].target_file
                /\ worker[r].data_path \in DataPaths
                /\ cmd[8] = << worker[r].data_path >>

\* A build subprocess has been launched.
C19_Witness ==
    \E r \in DOMAIN worker :
        /\ trace[r].launches # <<>>
        /\ trace[r].launches[1].cmd[7] = PathName(worker[r].target_file)
        /\ trace[r].launches[1].out.kind = "exit"

\* C20: every conversion a Convert click starts is eventually followed by
\* the window handling that run's terminal notification, with the Convert
\* button enabled again.
C20_EveryRunEnds ==
    \A r \in 1..MaxRuns :
        Started(r) ~> (TerminalHandled(r) /\ convert_enabled)

\* The slot of a run's terminal notification has run and has left the
\* Convert button enabled and the progress bar hidden.
C20_Witness ==
    \E r \in DOMAIN worker :
        /\ TerminalHandled(r)
        /\ Len(trace[r].handled) = Len(trace[r].emitted)
        /\ convert_enabled
        /\ ~progress_visible

\* C21: the window's busy state tracks the run: while a run is in flight
\* (started, its terminal notification not yet handled) the progress bar is
\* visible and the Convert button is disabled, and while no run is in
\* flight the progress bar is hidden.
C21_BusyTracksRun ==
    IF \E r \in DOMAIN worker : InFlight(r)
    THEN progress_visible /\ ~convert_enabled
    ELSE ~progress_visible
====
